---- MODULE Spec2Model ----
(***************************************************************************)
(* A model of cobraargs (arg.go): the struct-tag parser ParseArgFromField  *)
(* and the flag binders AttachStringArg / AttachBoolArg / AttachIntArg.    *)
(*                                                                         *)
(* A Go string is a sequence of bytes.  A byte is written as a one-letter  *)
(* TLA+ string for ASCII ("a", "=", "8") and as its two hex digits for a   *)
(* byte >= 0x80 ("C3").  The two-byte letters used are                     *)
(*   U+00C9 (upper-case E acute) = C3 89,  U+00E9 (its lower case) = C3 A9 *)
(* and U+FFFD (the replacement character) = EF BF BD.                      *)
(***************************************************************************)
EXTENDS Integers, Sequences, FiniteSets, TLC

VARIABLES
    decl,      \* the struct field handed to ParseArgFromField (parser runs)
    parsed,    \* what ParseArgFromField returned for it
    pc,        \* "idle" | "ready" | "done": position of the parser run
    cmd,       \* the cobra command: its flag set, shorthands, required marks
    status,    \* "ok" | "aborted": has a bind call panicked
    cause,     \* which panic ended the process, "none" while running
    history    \* the bind calls made so far, each with the command before it

vars == <<decl, parsed, pc, cmd, status, cause, history>>

---------------------------------------------------------------------------
(* Bounds *)

\* most tag items in a tag handed to the parser
MaxItems == 2

\* most bind calls made on one command
MaxCalls == 2

---------------------------------------------------------------------------
(* Bytes and the strings / strconv functions the code calls *)

Uppers == <<"A","B","C","D","E","F","G","H","I","J","K","L","M",
            "N","O","P","Q","R","S","T","U","V","W","X","Y","Z">>
Lowers == <<"a","b","c","d","e","f","g","h","i","j","k","l","m",
            "n","o","p","q","r","s","t","u","v","w","x","y","z">>
Digits == <<"0","1","2","3","4","5","6","7","8","9">>

\* bytes >= 0x80 (utf8.RuneSelf)
HighBytes == {"C3", "89", "A9", "EF", "BF", "BD"}

ReplacementChar == <<"EF", "BF", "BD">>

\* unicode.ToLower on an ASCII byte
LowerByte(b) ==
    IF \E i \in 1..Len(Uppers) : Uppers[i] = b
    THEN Lowers[CHOOSE i \in 1..Len(Uppers) : Uppers[i] = b]
    ELSE b

\* does s start with a well-formed two-byte letter (C3 89 or C3 A9)
StartsWithTwoByteRune(s) ==
    Len(s) >= 2 /\ s[1] = "C3" /\ s[2] \in {"89", "A9"}

RECURSIVE ToLowerFrom(_, _)
\* the lower-cased bytes of s from its byte i on
ToLowerFrom(s, i) ==
    IF i > Len(s) THEN <<>>
    ELSE IF s[i] \notin HighBytes
         THEN <<LowerByte(s[i])>> \o ToLowerFrom(s, i + 1)
    ELSE IF i < Len(s) /\ s[i] = "C3" /\ s[i + 1] \in {"89", "A9"}
         THEN <<"C3", "A9">> \o ToLowerFrom(s, i + 2)
    ELSE ReplacementChar \o ToLowerFrom(s, i + 1)

\* strings.ToLower: ASCII bytes are lower-cased byte by byte; otherwise
\* strings.Map(unicode.ToLower, s) decodes runes, and a byte that does not
\* start a well-formed rune is decoded as utf8.RuneError and written back
\* as U+FFFD.
ToLower(s) == ToLowerFrom(s, 1)

\* the positions of the byte sep in s
SepPositions(s, sep) == { i \in 1..Len(s) : s[i] = sep }

RECURSIVE SplitFrom(_, _, _)
\* the pieces of s between the seps, from its byte `start` on
SplitFrom(s, sep, start) ==
    LET rest == { i \in SepPositions(s, sep) : i >= start }
    IN  IF rest = {}
        THEN <<SubSeq(s, start, Len(s))>>
        ELSE LET i == CHOOSE k \in rest : \A j \in rest : k <= j
             IN  <<SubSeq(s, start, i - 1)>> \o SplitFrom(s, sep, i + 1)

\* strings.Split(s, sep) for a one-byte sep: the pieces between the seps,
\* one (empty) piece for the empty string.
Split(s, sep) == SplitFrom(s, sep, 1)

TrueWords  == { <<"1">>, <<"t">>, <<"T">>, <<"T","R","U","E">>,
                <<"t","r","u","e">>, <<"T","r","u","e">> }
FalseWords == { <<"0">>, <<"f">>, <<"F">>, <<"F","A","L","S","E">>,
                <<"f","a","l","s","e">>, <<"F","a","l","s","e">> }

\* strconv.ParseBool
ParseBool(str) ==
    IF str \in TrueWords THEN [ok |-> TRUE, val |-> TRUE]
    ELSE IF str \in FalseWords THEN [ok |-> TRUE, val |-> FALSE]
    ELSE [ok |-> FALSE, val |-> FALSE]

DigitValue(b) == (CHOOSE i \in 1..Len(Digits) : Digits[i] = b) - 1

IsDigit(b) == \E i \in 1..Len(Digits) : Digits[i] = b

RECURSIVE DecimalValue(_)
DecimalValue(ds) ==
    IF ds = <<>> THEN 0
    ELSE 10 * DecimalValue(SubSeq(ds, 1, Len(ds) - 1)) + DigitValue(ds[Len(ds)])

\* strconv.Atoi: an optional sign, then one or more decimal digits
\* (the texts used here are far below the 64-bit range).
Atoi(str) ==
    LET signed == str # <<>> /\ str[1] \in {"+", "-"}
        ds     == IF signed THEN Tail(str) ELSE str
    IN  IF ds = <<>> \/ \E i \in 1..Len(ds) : ~IsDigit(ds[i])
        THEN [ok |-> FALSE, val |-> 0]
        ELSE [ok |-> TRUE,
              val |-> IF signed /\ str[1] = "-"
                      THEN 0 - DecimalValue(ds) ELSE DecimalValue(ds)]

---------------------------------------------------------------------------
(* Argument and the errors of the tag parser *)

\* the zero value of Argument
ZeroArgument ==
    [Required |-> FALSE, LongName |-> <<>>, ShortName |-> <<>>,
     HasDefaultValue |-> FALSE, DefaultValue |-> <<>>]

\* a nil error
NoError == [kind |-> "nil", index |-> 0 - 1]

\* fmt.Errorf(...): the kind of message and the index it names (-1: none)
Errorf(kind, index) == [kind |-> kind, index |-> index]

---------------------------------------------------------------------------
(* The tag parser *)

sRequired     == <<"r","e","q","u","i","r","e","d">>
sLongname     == <<"l","o","n","g","n","a","m","e">>
sDefaultvalue == <<"d","e","f","a","u","l","t","v","a","l","u","e">>
sShortname    == <<"s","h","o","r","t","n","a","m","e">>

\* each process* function writes through its *Argument; here it returns
\* the written Argument with its error
processArgRequired(argument, fieldName, tagName, tagValue) ==
    LET b == ParseBool(tagValue)
    IN  IF ~b.ok
        THEN [arg |-> argument, err |-> Errorf("InvalidBooleanValue", 0 - 1)]
        ELSE [arg |-> [argument EXCEPT !.Required = b.val], err |-> NoError]

processArgLongName(argument, tagValue) ==
    IF Len(tagValue) > 0
    THEN [argument EXCEPT !.LongName = tagValue]
    ELSE argument

\* processArgDefaultValue with a fault: a default value once set is kept
processArgDefaultValue_KeepsFirst(argument, tagValue) ==
    IF argument.HasDefaultValue
    THEN argument
    ELSE [argument EXCEPT !.DefaultValue = tagValue, !.HasDefaultValue = TRUE]

processArgDefaultValue(argument, tagValue) ==
    [argument EXCEPT !.DefaultValue = tagValue, !.HasDefaultValue = TRUE]

\* processArgShortName with a fault: the value is stored as written
processArgShortName_NoLower(argument, fieldName, tagName, tagValue) ==
    IF Len(tagValue) > 1
    THEN [arg |-> argument, err |-> Errorf("ShortNameTooLong", 0 - 1)]
    ELSE [arg |-> [argument EXCEPT !.ShortName = tagValue], err |-> NoError]

processArgShortName(argument, fieldName, tagName, tagValue) ==
    IF Len(tagValue) > 1
    THEN [arg |-> argument, err |-> Errorf("ShortNameTooLong", 0 - 1)]
    ELSE [arg |-> [argument EXCEPT !.ShortName = ToLower(tagValue)],
          err |-> NoError]

processArg(argument, fieldName, tagName, tagValue) ==
    CASE tagName = sRequired ->
           processArgRequired(argument, fieldName, tagName, tagValue)
      [] tagName = sLongname ->
           [arg |-> processArgLongName(argument, tagValue), err |-> NoError]
      [] tagName = sDefaultvalue ->
           [arg |-> processArgDefaultValue(argument, tagValue), err |-> NoError]
      [] tagName = sShortname ->
           processArgShortName(argument, fieldName, tagName, tagValue)
      [] OTHER -> [arg |-> argument, err |-> NoError]

\* parseItem with a fault: the error counts the items from 1
parseItem_OneBasedIndex(argument, fieldName, argItem, index) ==
    LET nameValue == Split(argItem, "=")
    IN  IF Len(nameValue) # 2
        THEN [arg |-> argument, err |-> Errorf("MalformedTagItem", index + 1)]
        ELSE processArg(argument, fieldName, ToLower(nameValue[1]), nameValue[2])

\* the body of the loop of ParseArgFromField for the item at Go index
\* `index`: the written Argument and the error the body returns with, nil
\* when the loop goes on
parseItem(argument, fieldName, argItem, index) ==
    LET nameValue == Split(argItem, "=")
    IN  IF Len(nameValue) # 2
        THEN [arg |-> argument, err |-> Errorf("MalformedTagItem", index)]
        ELSE LET tagName  == ToLower(nameValue[1])
                 tagValue == nameValue[2]
             IN  processArg(argument, fieldName, tagName, tagValue)

RECURSIVE ParseItems(_, _, _, _)
\* the loop of ParseArgFromField over argItems, from Go index `index` on
ParseItems(argument, fieldName, argItems, index) ==
    IF index >= Len(argItems)
    THEN [arg |-> argument, err |-> NoError]
    ELSE LET r == parseItem(argument, fieldName, argItems[index + 1], index)
         IN  IF r.err # NoError
             THEN r
             ELSE ParseItems(r.arg, fieldName, argItems, index + 1)

\* field is a reflect.StructField: [Name, Tag], Tag the values of the
\* struct tag's keys "arg" and "help" (Tag.Get gives "" for an absent key)
ParseArgFromField(field) ==
    IF Len(field.Name) < 2
    THEN [arg |-> ZeroArgument, err |-> Errorf("FieldNameTooShort", 0 - 1)]
    ELSE LET defaultName == ToLower(SubSeq(field.Name, 1, 1))
                            \o SubSeq(field.Name, 2, Len(field.Name))
             argument    == [ZeroArgument EXCEPT !.LongName = defaultName]
             rawArgStr   == field.Tag.arg
             argItems    == Split(rawArgStr, ",")
         IN  ParseItems(argument, field.Name, argItems, 0)

---------------------------------------------------------------------------
(* Struct fields as written in a Go source file.  A declaration lists the  *)
(* items of its arg tag, each item as its '='-separated parts; the tag     *)
(* text the parser reads is the items joined by ',' and the parts by '='.  *)

RECURSIVE Join(_, _)
Join(pieces, sep) ==
    IF pieces = <<>> THEN <<>>
    ELSE IF Len(pieces) = 1 THEN pieces[1]
    ELSE pieces[1] \o <<sep>> \o Join(Tail(pieces), sep)

ItemText(parts) == Join(parts, "=")

TagText(items) == Join([i \in 1..Len(items) |-> ItemText(items[i])], ",")

\* the reflect.StructField of a declaration
FieldOf(d) ==
    [Name |-> d.Name, Tag |-> [arg |-> TagText(d.items), help |-> d.help]]

sTrue == <<"t","r","u","e">>

\* the tag items the parser is run on
ItemPool ==
    { <<sRequired, sTrue>>,
      <<sRequired, <<"0">> >>,
      <<sRequired, <<"x">> >>,
      << <<"R","e","q","u","i","r","e","d">>, <<"T">> >>,
      <<sLongname, <<"a","b">> >>,
      <<sLongname, <<"x">> >>,
      <<sLongname, <<>> >>,
      <<sDefaultvalue, <<"8","0">> >>,
      <<sDefaultvalue, sTrue>>,
      <<sDefaultvalue, <<>> >>,
      <<sShortname, <<"a">> >>,
      <<sShortname, <<"A">> >>,
      <<sShortname, <<"a","b">> >>,
      <<sShortname, <<"C3","A9">> >>,
      <<sShortname, <<>> >>,
      << <<"x">>, <<"1">> >>,
      << <<"x">> >>,
      << <<>> >>,
      << <<"a">>, <<"b">>, <<"c">> >> }

\* the field names the parser is run on: Ab, ab, A, and with U+00C9 for
\* the first letter: C9 b, C9
NamePool ==
    { <<"A","b">>, <<"a","b">>, <<"A">>, <<"C3","89","b">>, <<"C3","89">> }

\* tags of 1..MaxItems items (a tag text always has at least one item:
\* the empty text is the tag of the single empty item)
ItemLists == UNION { [1..n -> ItemPool] : n \in 1..MaxItems }

ParserDecls == [Name : NamePool, items : ItemLists, help : {""}]

IdleDecl == [Name |-> <<>>, items |-> <<>>, help |-> ""]

NotParsed == [arg |-> ZeroArgument, err |-> NoError]

\* a cobra.Command with no flags yet: flags is the FlagSet's map from long
\* name to flag, shorthands its map from shorthand byte to long name,
\* required the long names annotated as required
NewCommand == [flags |-> <<>>, shorthands |-> <<>>, required |-> {}]

\* a run of the parser: the field is drawn, then parsed
InitParse ==
    /\ decl \in ParserDecls
    /\ parsed = NotParsed
    /\ pc = "ready"
    /\ cmd = NewCommand
    /\ status = "ok"
    /\ cause = "none"
    /\ history = <<>>

Parse ==
    /\ pc = "ready"
    /\ parsed' = ParseArgFromField(FieldOf(decl))
    /\ pc' = "done"
    /\ UNCHANGED <<decl, cmd, status, cause, history>>

NextParse == Parse

SpecParse == InitParse /\ [][NextParse]_vars

---------------------------------------------------------------------------
(* The command framework, as far as the binder uses it *)

StringValue(s) == [type |-> "string", s |-> s, i |-> 0, b |-> FALSE]
IntValue(i)    == [type |-> "int", s |-> <<>>, i |-> i, b |-> FALSE]
BoolValue(b)   == [type |-> "bool", s |-> <<>>, i |-> 0, b |-> b]
NilValue       == [type |-> "nil", s |-> <<>>, i |-> 0, b |-> FALSE]

\* cmd.Flags().StringVarP / BoolVarP / IntVarP: FlagSet.AddFlag panics on a
\* long name it already holds; it then adds the flag, and panics on a
\* shorthand of more than one byte or one it already holds.
VarP(c, name, shorthand, value, usage) ==
    IF name \in DOMAIN c.flags
    THEN [cmd |-> c, panic |-> "flagRedefined"]
    ELSE LET flag == [shorthand |-> shorthand, value |-> value, usage |-> usage]
             c1   == [c EXCEPT !.flags = (name :> flag) @@ @]
         IN  IF shorthand = <<>>
             THEN [cmd |-> c1, panic |-> "none"]
             ELSE IF Len(shorthand) > 1
             THEN [cmd |-> c1, panic |-> "shorthandTooLong"]
             ELSE IF shorthand[1] \in DOMAIN c1.shorthands
             THEN [cmd |-> c1, panic |-> "shorthandRedefined"]
             ELSE [cmd |-> [c1 EXCEPT !.shorthands = (shorthand[1] :> name) @@ @],
                   panic |-> "none"]

\* cmd.MarkFlagRequired(name): an error when the flag set has no such flag
MarkFlagRequired(c, name) ==
    IF name \notin DOMAIN c.flags
    THEN [cmd |-> c, err |-> TRUE]
    ELSE [cmd |-> [c EXCEPT !.required = @ \cup {name}], err |-> FALSE]

\* parmType.FieldByName(variableName); parmType is the set of the struct's
\* field declarations
FieldByName(parmType, variableName) ==
    IF \E d \in parmType : d.Name = variableName
    THEN [field |-> FieldOf(CHOOSE d \in parmType : d.Name = variableName),
          has |-> TRUE]
    ELSE [field |-> FieldOf(IdleDecl), has |-> FALSE]

---------------------------------------------------------------------------
(* The flag binder.  A bind call returns the command as it leaves it and  *)
(* the panic it ended with ("none" when it returned).                      *)

\* rationalizeHelp with a fault: the test of Required is inverted
rationalizeHelp_Inverted(arg, rawHelp) ==
    (IF ~arg.Required THEN "MANDATORY: " ELSE "optional: ") \o rawHelp

rationalizeHelp(arg, rawHelp) ==
    (IF arg.Required THEN "MANDATORY: " ELSE "optional: ") \o rawHelp

parseArg(parmType, variableName) ==
    LET f == FieldByName(parmType, variableName)
    IN  IF ~f.has
        THEN [arg |-> ZeroArgument, rawHelp |-> "", panic |-> "fieldNotFound"]
        ELSE LET r == ParseArgFromField(f.field)
             IN  IF r.err # NoError
                 THEN [arg |-> r.arg, rawHelp |-> "", panic |-> "parseError"]
                 ELSE [arg |-> r.arg, rawHelp |-> f.field.Tag.help,
                       panic |-> "none"]

\* processRequiredArg with a fault: the test of Required is missing
processRequiredArg_Unconditional(c, arg) ==
    LET m == MarkFlagRequired(c, arg.LongName)
    IN  IF m.err
        THEN [cmd |-> m.cmd, panic |-> "markRequired"]
        ELSE [cmd |-> m.cmd, panic |-> "none"]

processRequiredArg(c, arg) ==
    IF arg.Required
    THEN LET m == MarkFlagRequired(c, arg.LongName)
         IN  IF m.err
             THEN [cmd |-> m.cmd, panic |-> "markRequired"]
             ELSE [cmd |-> m.cmd, panic |-> "none"]
    ELSE [cmd |-> c, panic |-> "none"]

\* AttachStringArg with a fault: the tag's default value wins over the
\* override argument
AttachStringArg_TagDefaultWins(c, parmType, variableName, otherArgs) ==
    LET p == parseArg(parmType, variableName)
    IN  IF p.panic # "none"
        THEN [cmd |-> c, panic |-> p.panic]
        ELSE LET override     == IF Len(otherArgs) > 0 THEN otherArgs[1] ELSE <<>>
                 defaultValue == IF p.arg.HasDefaultValue
                                 THEN p.arg.DefaultValue ELSE override
                 a == VarP(c, p.arg.LongName, p.arg.ShortName,
                           StringValue(defaultValue),
                           rationalizeHelp(p.arg, p.rawHelp))
             IN  IF a.panic # "none"
                 THEN a
                 ELSE processRequiredArg(a.cmd, p.arg)

\* AttachStringArg with a fault: a long name the command already has is
\* looked up first and the call returns without registering
AttachStringArg_SkipsDuplicate(c, parmType, variableName, otherArgs) ==
    LET p == parseArg(parmType, variableName)
    IN  IF p.panic # "none"
        THEN [cmd |-> c, panic |-> p.panic]
        ELSE IF p.arg.LongName \in DOMAIN c.flags
        THEN [cmd |-> c, panic |-> "none"]
        ELSE LET fromTag      == IF p.arg.HasDefaultValue
                                 THEN p.arg.DefaultValue ELSE <<>>
                 defaultValue == IF Len(otherArgs) > 0
                                 THEN otherArgs[1] ELSE fromTag
                 a == VarP(c, p.arg.LongName, p.arg.ShortName,
                           StringValue(defaultValue),
                           rationalizeHelp(p.arg, p.rawHelp))
             IN  IF a.panic # "none"
                 THEN a
                 ELSE processRequiredArg(a.cmd, p.arg)

AttachStringArg(c, parmType, variableName, otherArgs) ==
    LET p == parseArg(parmType, variableName)
    IN  IF p.panic # "none"
        THEN [cmd |-> c, panic |-> p.panic]
        ELSE LET fromTag      == IF p.arg.HasDefaultValue
                                 THEN p.arg.DefaultValue ELSE <<>>
                 defaultValue == IF Len(otherArgs) > 0
                                 THEN otherArgs[1] ELSE fromTag
                 a == VarP(c, p.arg.LongName, p.arg.ShortName,
                           StringValue(defaultValue),
                           rationalizeHelp(p.arg, p.rawHelp))
             IN  IF a.panic # "none"
                 THEN a
                 ELSE processRequiredArg(a.cmd, p.arg)

booleanStringToValueConverter(val) ==
    LET r == ParseBool(val) IN [value |-> BoolValue(r.val), err |-> ~r.ok]

intStringToValueConverter(val) ==
    LET r == Atoi(val) IN [value |-> IntValue(r.val), err |-> ~r.ok]

\* a call of a genericStringToValueConverter, named by the function passed
genericStringToValueConverter(converter, val) ==
    IF converter = "booleanStringToValueConverter"
    THEN booleanStringToValueConverter(val)
    ELSE intStringToValueConverter(val)

\* the interface{} returned: nil when the tag has no default value
attachCommonArg(arg, parmType, variableName, converter) ==
    IF arg.HasDefaultValue
    THEN LET r == genericStringToValueConverter(converter, arg.DefaultValue)
         IN  IF r.err
             THEN [defaultValue |-> NilValue, panic |-> "defaultConversion"]
             ELSE [defaultValue |-> r.value, panic |-> "none"]
    ELSE [defaultValue |-> NilValue, panic |-> "none"]

\* defaultValue.(bool): the one-result type assertion panics unless the
\* interface holds a bool; a nil interface holds none
AttachBoolArg(c, parmType, variableName) ==
    LET p == parseArg(parmType, variableName)
    IN  IF p.panic # "none"
        THEN [cmd |-> c, panic |-> p.panic]
        ELSE LET d == attachCommonArg(p.arg, parmType, variableName,
                                      "booleanStringToValueConverter")
             IN  IF d.panic # "none"
                 THEN [cmd |-> c, panic |-> d.panic]
                 ELSE IF d.defaultValue.type # "bool"
                 THEN [cmd |-> c, panic |-> "typeAssertion"]
                 ELSE LET a == VarP(c, p.arg.LongName, p.arg.ShortName,
                                    d.defaultValue,
                                    rationalizeHelp(p.arg, p.rawHelp))
                      IN  IF a.panic # "none"
                          THEN a
                          ELSE processRequiredArg(a.cmd, p.arg)

\* AttachIntArg with a fault: the flag is registered with the default 0
\* before the tag's default value is converted
AttachIntArg_RegistersFirst(c, parmType, variableName) ==
    LET p == parseArg(parmType, variableName)
    IN  IF p.panic # "none"
        THEN [cmd |-> c, panic |-> p.panic]
        ELSE LET a == VarP(c, p.arg.LongName, p.arg.ShortName, IntValue(0),
                           rationalizeHelp(p.arg, p.rawHelp))
                 d == attachCommonArg(p.arg, parmType, variableName,
                                      "intStringToValueConverter")
             IN  IF a.panic # "none"
                 THEN a
                 ELSE IF d.panic # "none"
                 THEN [cmd |-> a.cmd, panic |-> d.panic]
                 ELSE IF d.defaultValue.type # "int"
                 THEN [cmd |-> a.cmd, panic |-> "typeAssertion"]
                 ELSE processRequiredArg(
                          [a.cmd EXCEPT !.flags[p.arg.LongName].value = d.defaultValue],
                          p.arg)

AttachIntArg(c, parmType, variableName) ==
    LET p == parseArg(parmType, variableName)
    IN  IF p.panic # "none"
        THEN [cmd |-> c, panic |-> p.panic]
        ELSE LET d == attachCommonArg(p.arg, parmType, variableName,
                                      "intStringToValueConverter")
             IN  IF d.panic # "none"
                 THEN [cmd |-> c, panic |-> d.panic]
                 ELSE IF d.defaultValue.type # "int"
                 THEN [cmd |-> c, panic |-> "typeAssertion"]
                 ELSE LET a == VarP(c, p.arg.LongName, p.arg.ShortName,
                                    d.defaultValue,
                                    rationalizeHelp(p.arg, p.rawHelp))
                      IN  IF a.panic # "none"
                          THEN a
                          ELSE processRequiredArg(a.cmd, p.arg)

---------------------------------------------------------------------------
(* Bind calls on one command *)

\* the struct whose fields are bound, as it would be written in Go:
\*   Ab string `arg:"required=true,shortname=a" help:"h"`
\*   Cd int    `arg:"defaultvalue=80"`
\*   Ef bool   `arg:"defaultvalue=true,shortname=A" help:"h"`
\*   Gh bool   `arg:"Required=T,defaultvalue=1" help:"h"`
\*   Ij int    `arg:"longname=ab,defaultvalue=0"`
\*   Kl string                       (no arg tag)
\*   M  int    `arg:"defaultvalue=1"`
\*   Np bool   `arg:"required=x"`
\*   Qr string `arg:"defaultvalue="`
\*   St bool   `arg:"x=1"`
\*   Uv int    `arg:"defaultvalue=x,defaultvalue=-8,required=0"`
ParmType ==
    { [Name |-> <<"A","b">>, help |-> "h",
       items |-> << <<sRequired, sTrue>>, <<sShortname, <<"a">> >> >>],
      [Name |-> <<"C","d">>, help |-> "",
       items |-> << <<sDefaultvalue, <<"8","0">> >> >>],
      [Name |-> <<"E","f">>, help |-> "h",
       items |-> << <<sDefaultvalue, sTrue>>, <<sShortname, <<"A">> >> >>],
      [Name |-> <<"G","h">>, help |-> "h",
       items |-> << << <<"R","e","q","u","i","r","e","d">>, <<"T">> >>,
                    <<sDefaultvalue, <<"1">> >> >>],
      [Name |-> <<"I","j">>, help |-> "",
       items |-> << <<sLongname, <<"a","b">> >>, <<sDefaultvalue, <<"0">> >> >>],
      [Name |-> <<"K","l">>, help |-> "",
       items |-> << << <<>> >> >>],
      [Name |-> <<"M">>, help |-> "",
       items |-> << <<sDefaultvalue, <<"1">> >> >>],
      [Name |-> <<"N","p">>, help |-> "",
       items |-> << <<sRequired, <<"x">> >> >>],
      [Name |-> <<"Q","r">>, help |-> "",
       items |-> << <<sDefaultvalue, <<>> >> >>],
      [Name |-> <<"S","t">>, help |-> "",
       items |-> << << <<"x">>, <<"1">> >> >>],
      [Name |-> <<"U","v">>, help |-> "",
       items |-> << <<sDefaultvalue, <<"x">> >>,
                    <<sDefaultvalue, <<"-","8">> >>,
                    <<sRequired, <<"0">> >> >>] }

\* the variableName arguments: the struct's field names and Zz, which the
\* struct does not have
VariableNames == { d.Name : d \in ParmType } \cup { <<"Z","z">> }

\* the otherArgs tails of AttachStringArg: none, "x", "" and "y","x"
OtherArgsPool == { <<>>, << <<"x">> >>, << <<>> >>, << <<"y">>, <<"x">> >> }

Init ==
    /\ decl = IdleDecl
    /\ parsed = NotParsed
    /\ pc = "idle"
    /\ cmd = NewCommand
    /\ status = "ok"
    /\ cause = "none"
    /\ history = <<>>

\* the process is running and may make another bind call
CanCall == pc = "idle" /\ status = "ok" /\ Len(history) < MaxCalls

\* a bind call ended with r: the panic, if any, ends the process
Called(kind, variableName, otherArgs, r) ==
    /\ cmd' = r.cmd
    /\ status' = IF r.panic = "none" THEN "ok" ELSE "aborted"
    /\ cause' = r.panic
    /\ history' = Append(history, [kind |-> kind, variableName |-> variableName,
                                   otherArgs |-> otherArgs, before |-> cmd])
    /\ UNCHANGED <<decl, parsed, pc>>

CallAttachStringArg ==
    \E variableName \in VariableNames, otherArgs \in OtherArgsPool :
        /\ CanCall
        /\ Called("string", variableName, otherArgs,
                  AttachStringArg(cmd, ParmType, variableName, otherArgs))

CallAttachBoolArg ==
    \E variableName \in VariableNames :
        /\ CanCall
        /\ Called("bool", variableName, <<>>,
                  AttachBoolArg(cmd, ParmType, variableName))

CallAttachIntArg ==
    \E variableName \in VariableNames :
        /\ CanCall
        /\ Called("int", variableName, <<>>,
                  AttachIntArg(cmd, ParmType, variableName))

Next == CallAttachBoolArg \/ CallAttachIntArg \/ CallAttachStringArg

Spec == Init /\ [][Next]_vars

---------------------------------------------------------------------------
(* Reading a declaration the way the specification describes it *)

RECURSIVE CharCount(_)
\* the number of characters of a well-formed UTF-8 text
CharCount(s) ==
    IF s = <<>> THEN 0
    ELSE IF StartsWithTwoByteRune(s) THEN 1 + CharCount(SubSeq(s, 3, Len(s)))
    ELSE 1 + CharCount(Tail(s))

\* the text with its first character lower-cased, the remainder unchanged
LowerFirstChar(s) ==
    IF StartsWithTwoByteRune(s)
    THEN <<"C3", "A9">> \o SubSeq(s, 3, Len(s))
    ELSE <<LowerByte(s[1])>> \o Tail(s)

\* an item that does not split on '=' into exactly two parts
Malformed(parts) == Len(parts) # 2

\* an item of the given key, matched case-insensitively
IsKey(parts, key) == Len(parts) = 2 /\ ToLower(parts[1]) = key

NotBoolean(value) == value \notin (TrueWords \cup FalseWords)

\* an item the parser rejects when it comes to it
Rejected(parts) ==
    \/ Malformed(parts)
    \/ IsKey(parts, sRequired) /\ NotBoolean(parts[2])
    \/ IsKey(parts, sShortname) /\ Len(parts[2]) > 1

\* the error the parser gives for a rejected item at 1-based position i
RejectionOf(parts, i) ==
    IF Malformed(parts) THEN Errorf("MalformedTagItem", i - 1)
    ELSE IF IsKey(parts, sRequired) THEN Errorf("InvalidBooleanValue", 0 - 1)
    ELSE Errorf("ShortNameTooLong", 0 - 1)

First(S) == CHOOSE i \in S : \A j \in S : i <= j

Last(S) == CHOOSE i \in S : \A j \in S : j <= i

KeyPositions(items, key) == { i \in 1..Len(items) : IsKey(items[i], key) }

\* the value of the last item of the key (the key occurs)
LastValue(items, key) == items[Last(KeyPositions(items, key))][2]

---------------------------------------------------------------------------
(* Claims about the tag parser, checked under SpecParse *)

ParsedOk == pc = "done" /\ parsed.err = NoError

MalformedPositions == { i \in 1..Len(decl.items) : Malformed(decl.items[i]) }

RejectedPositions == { i \in 1..Len(decl.items) : Rejected(decl.items[i]) }

\* C2 as stated: for a field name of at least 2 characters, a tag with an
\* item that does not split on '=' into exactly two parts fails with
\* MalformedTagItem, and the index named is the zero-based position of such
\* an item.
C2_AsStated ==
    (pc = "done" /\ CharCount(decl.Name) >= 2 /\ MalformedPositions # {})
        => /\ parsed.err.kind = "MalformedTagItem"
           /\ parsed.err.index + 1 \in MalformedPositions

\* C2 amended: for a field name of at least 2 characters, a tag with a
\* malformed item always fails, and it fails with the error of the first
\* item the parser rejects: MalformedTagItem naming the zero-based index of
\* the first malformed item, unless an earlier item is a required item with
\* a non-boolean value (InvalidBooleanValue) or a shortname item with a
\* value longer than 1 byte (ShortNameTooLong).
C2_FirstRejectedItemDecides ==
    (pc = "done" /\ CharCount(decl.Name) >= 2 /\ MalformedPositions # {})
        => LET r == First(RejectedPositions)
           IN  /\ parsed.err # NoError
               /\ parsed.err = RejectionOf(decl.items[r], r)
               /\ r = First(MalformedPositions)
                    => parsed.err = Errorf("MalformedTagItem", r - 1)

\* C2 witness: a well-formed first item, a malformed second one, and the
\* error names index 1.
C2_Witness ==
    /\ pc = "done"
    /\ CharCount(decl.Name) >= 2
    /\ Len(decl.items) = 2
    /\ ~Rejected(decl.items[1])
    /\ Malformed(decl.items[2])
    /\ parsed.err = Errorf("MalformedTagItem", 1)

NonEmptyLongnames ==
    { i \in KeyPositions(decl.items, sLongname) : decl.items[i][2] # <<>> }

\* C4 as stated: for a field name of at least 2 characters, a successful
\* parse gives a non-empty LongName: the value of the last longname item
\* with a non-empty value if there is one, and otherwise the field name
\* with its first character lower-cased and the remainder unchanged.
C4_AsStated ==
    (ParsedOk /\ CharCount(decl.Name) >= 2)
        => /\ parsed.arg.LongName # <<>>
           /\ parsed.arg.LongName =
                  IF NonEmptyLongnames # {}
                  THEN decl.items[Last(NonEmptyLongnames)][2]
                  ELSE LowerFirstChar(decl.Name)

\* the long name the parser starts from, before any item is applied
StartName(name) == ToLower(SubSeq(name, 1, 1)) \o SubSeq(name, 2, Len(name))

HasKey(key) == KeyPositions(decl.items, key) # {}

\* what C5 says of the fields other than LongName
C5_OtherFields ==
    /\ parsed.arg.Required =
           (HasKey(sRequired) /\ LastValue(decl.items, sRequired) \in TrueWords)
    /\ parsed.arg.HasDefaultValue = HasKey(sDefaultvalue)
    /\ parsed.arg.DefaultValue =
           IF HasKey(sDefaultvalue)
           THEN LastValue(decl.items, sDefaultvalue) ELSE <<>>
    /\ parsed.arg.ShortName =
           IF HasKey(sShortname)
           THEN ToLower(LastValue(decl.items, sShortname)) ELSE <<>>

\* C5 as stated: in a tag that parses successfully, each of required,
\* longname, defaultvalue and shortname (keys matched case-insensitively)
\* is decided by the last item of that key, and items of any other key
\* leave the Argument as it was.
C5_AsStated ==
    ParsedOk
        => /\ C5_OtherFields
           /\ parsed.arg.LongName =
                  IF HasKey(sLongname)
                  THEN LastValue(decl.items, sLongname)
                  ELSE StartName(decl.Name)

\* C5 amended: as stated, except that LongName is decided by the last
\* longname item with a non-empty value (a longname item with an empty
\* value overrides nothing, also when it comes last).
C5_LastItemWins ==
    ParsedOk
        => /\ C5_OtherFields
           /\ parsed.arg.LongName =
                  IF NonEmptyLongnames # {}
                  THEN decl.items[Last(NonEmptyLongnames)][2]
                  ELSE StartName(decl.Name)

\* C5 witness: a key written twice with different values, the second kept.
C5_Witness ==
    /\ ParsedOk
    /\ Len(decl.items) = 2
    /\ IsKey(decl.items[1], sDefaultvalue)
    /\ IsKey(decl.items[2], sDefaultvalue)
    /\ decl.items[1][2] # decl.items[2][2]
    /\ parsed.arg.DefaultValue = decl.items[2][2]

LongShortnames ==
    { i \in KeyPositions(decl.items, sShortname) :
          CharCount(decl.items[i][2]) > 1 }

C6_ShortNameShape ==
    ParsedOk
        => \/ parsed.arg.ShortName = <<>>
           \/ /\ CharCount(parsed.arg.ShortName) = 1
              /\ ToLower(parsed.arg.ShortName) = parsed.arg.ShortName
              /\ \A i \in 1..Len(Uppers) : parsed.arg.ShortName # <<Uppers[i]>>

---------------------------------------------------------------------------
(* Claims about the flag binder, checked under Spec *)

Calls == { history[k] : k \in 1..Len(history) }

LastCall == history[Len(history)]

Found(h) == \E d \in ParmType : d.Name = h.variableName

\* the declaration of the field a call names (the struct has it)
DeclOf(h) == CHOOSE d \in ParmType : d.Name = h.variableName

\* what the tag parser makes of each field of the struct
ParsedFields == [d \in ParmType |-> ParseArgFromField(FieldOf(d))]

\* what the tag parser makes of the field a call names
ParseOf(h) == ParsedFields[DeclOf(h)]

KeyIn(h, key) == KeyPositions(DeclOf(h).items, key) # {}

\* Required as the tag states it: the boolean value of the last required
\* item, false without one
RequiredByTag(h) ==
    KeyIn(h, sRequired) /\ LastValue(DeclOf(h).items, sRequired) \in TrueWords

\* the texts of the integers used as default values
IntTexts ==
    { [text |-> <<"8","0">>, int |-> 80], [text |-> <<"1">>, int |-> 1],
      [text |-> <<"0">>, int |-> 0], [text |-> <<"-","8">>, int |-> 0 - 8] }

IsIntText(text) == \E t \in IntTexts : t.text = text

\* the four causes of a fatal misconfiguration C1 lists
FieldMissing(h) == ~Found(h)

ParseFails(h) == Found(h) /\ ParseOf(h).err # NoError

DefaultNotConvertible(h) ==
    /\ Found(h)
    /\ ParseOf(h).err = NoError
    /\ KeyIn(h, sDefaultvalue)
    /\ \/ h.kind = "bool" /\ NotBoolean(LastValue(DeclOf(h).items, sDefaultvalue))
       \/ h.kind = "int" /\ ~IsIntText(LastValue(DeclOf(h).items, sDefaultvalue))

ListedCause(h) ==
    \/ FieldMissing(h)
    \/ ParseFails(h)
    \/ DefaultNotConvertible(h)
    \/ cause = "markRequired"

\* C1 as stated: a bind call aborts only when the field is missing, the tag
\* parser fails, the default value cannot be converted or marking the flag
\* required fails; in every other case (in particular a bool or int field
\* whose tag parses and has no defaultvalue item) it returns, having
\* registered exactly one flag.
C1_AsStated ==
    history # <<>>
        => /\ status = "aborted" => ListedCause(LastCall)
           /\ ~ListedCause(LastCall)
                => /\ status = "ok"
                   /\ Cardinality(DOMAIN cmd.flags)
                        = Cardinality(DOMAIN LastCall.before.flags) + 1

\* the flag a returned call registered
FlagOf(h) == cmd.flags[ParseOf(h).arg.LongName]

\* C3: every flag a bind call registered has the effective default: for
\* AttachStringArg the first override argument if there is one, else the
\* text of the tag's defaultvalue item, else the empty string; for
\* AttachIntArg and AttachBoolArg the integer or the boolean that the text
\* of the tag's defaultvalue item denotes.
C3_EffectiveDefault ==
    status = "ok"
        => \A h \in Calls :
             LET items == DeclOf(h).items
             IN  CASE h.kind = "string" ->
                        FlagOf(h).value = StringValue(
                            IF Len(h.otherArgs) > 0 THEN h.otherArgs[1]
                            ELSE IF KeyIn(h, sDefaultvalue)
                                 THEN LastValue(items, sDefaultvalue)
                                 ELSE <<>>)
                   [] h.kind = "int" ->
                        /\ KeyIn(h, sDefaultvalue)
                        /\ \E t \in IntTexts :
                             /\ t.text = LastValue(items, sDefaultvalue)
                             /\ FlagOf(h).value = IntValue(t.int)
                   [] h.kind = "bool" ->
                        /\ KeyIn(h, sDefaultvalue)
                        /\ FlagOf(h).value =
                             BoolValue(LastValue(items, sDefaultvalue) \in TrueWords)

\* C3 witness: a string flag whose override "x" replaced the tag's default
\* 80, next to an int flag with the default -8.
C3_Witness ==
    /\ status = "ok"
    /\ \E h \in Calls :
         /\ h.kind = "string"
         /\ h.otherArgs # <<>>
         /\ KeyIn(h, sDefaultvalue)
         /\ LastValue(DeclOf(h).items, sDefaultvalue) = <<"8","0">>
         /\ FlagOf(h).value = StringValue(<<"x">>)
    /\ \E h \in Calls : h.kind = "int" /\ FlagOf(h).value = IntValue(0 - 8)

\* C7: the help text of every flag a bind call registered is the field's
\* raw help text prefixed with "MANDATORY: " when the tag's last required
\* item is true, and with "optional: " when it is false or absent.
C7_HelpPrefix ==
    status = "ok"
        => \A h \in Calls :
             /\ ParseOf(h).arg.Required = RequiredByTag(h)
             /\ FlagOf(h).usage =
                  IF RequiredByTag(h)
                  THEN "MANDATORY: " \o DeclOf(h).help
                  ELSE "optional: " \o DeclOf(h).help

\* C7 witness: a flag with the help "MANDATORY: h" and one with an
\* "optional: " help.
C7_Witness ==
    /\ status = "ok"
    /\ \E h \in Calls : RequiredByTag(h) /\ FlagOf(h).usage = "MANDATORY: h"
    /\ \E h \in Calls : ~RequiredByTag(h) /\ FlagOf(h).usage = "optional: "

\* a call made again on the command c
Redo(h, c) ==
    CASE h.kind = "string" ->
           AttachStringArg(c, ParmType, h.variableName, h.otherArgs)
      [] h.kind = "bool" -> AttachBoolArg(c, ParmType, h.variableName)
      [] h.kind = "int" -> AttachIntArg(c, ParmType, h.variableName)

\* C8: when two bind calls have returned one after the other, making them
\* in the other order on the same command returns too and leaves the same
\* flags, defaults, help texts, shorthands and required marks; and a call
\* whose long name is already in the command's flag set never returns.
C8_OrderIndependent ==
    /\ (status = "ok" /\ Len(history) >= 2)
         => LET a  == history[Len(history) - 1]
                b  == history[Len(history)]
                r1 == Redo(b, a.before)
                r2 == Redo(a, r1.cmd)
            IN  /\ r1.panic = "none"
                /\ r2.panic = "none"
                /\ r2.cmd = cmd
    /\ \A h \in Calls :
         (Found(h) /\ ParseOf(h).err = NoError
            /\ ParseOf(h).arg.LongName \in DOMAIN h.before.flags)
           => status = "aborted"

\* C8 witness: two calls returned, for fields with different long names
\* and different shorthands, one of them required.
C8_Witness ==
    /\ status = "ok"
    /\ Len(history) = 2
    /\ Cardinality(DOMAIN cmd.flags) = 2
    /\ Cardinality(DOMAIN cmd.shorthands) = 1
    /\ Cardinality(cmd.required) = 1

\* C9: the required marks are exactly the long names of the flags bound
\* from a field whose Argument has Required = TRUE (for the calls that
\* returned), every marked flag is in the flag set, and no call ends
\* because marking its flag required failed.
C9_RequiredMarks ==
    /\ cause # "markRequired"
    /\ cmd.required \subseteq DOMAIN cmd.flags
    /\ status = "ok"
         => /\ \A h \in Calls :
                 ParseOf(h).arg.LongName \in cmd.required
                    <=> ParseOf(h).arg.Required
            /\ \A name \in DOMAIN cmd.flags :
                 \E h \in Calls : ParseOf(h).arg.LongName = name

\* C9 witness: a required flag and an optional flag on one command.
C9_Witness ==
    /\ status = "ok"
    /\ cmd.required # {}
    /\ DOMAIN cmd.flags \ cmd.required # {}

EarlyCauses == {"fieldNotFound", "parseError", "defaultConversion"}

\* C10: a call that aborts because the field is missing, the tag parser
\* failed or the default value could not be converted leaves the flags,
\* the shorthands and the required marks as they were before the call.
C10_AbortLeavesCommand ==
    (status = "aborted" /\ cause \in EarlyCauses)
        => cmd = LastCall.before

\* C10 witness: a command with a flag on it, and a second call ended by a
\* default value that could not be converted.
C10_Witness ==
    /\ status = "aborted"
    /\ cause = "defaultConversion"
    /\ Len(history) = 2
    /\ DOMAIN cmd.flags # {}
    /\ cmd = LastCall.before

====
